---- MODULE Spec2Model ----
(***************************************************************************)
(* Model of icons_generator.py: a Blender macro that builds a camera and   *)
(* light rig in a "Setup" collection, standardizes every mesh object of    *)
(* the "Target" collection and renders each one at five resolutions.       *)
(*                                                                         *)
(* The host scene (bpy.data / bpy.context) is the state.  Coordinates are  *)
(* exact rationals <<n, d>> (d > 0, reduced); float rounding is not        *)
(* modelled.  One run of main() is a sequence of steps, one per statement  *)
(* of main(); main() may be run again on the scene a run leaves behind.    *)
(***************************************************************************)
EXTENDS Integers, Sequences, FiniteSets, TLC

\* ---------------------------------------------------------------- bounds
MaxTargetObjs == 2
MaxRuns == 2
MaxTargetSize == 3

\* ------------------------------------------------------------- rationals
Abs(n) == IF n < 0 THEN -n ELSE n

RECURSIVE GCD(_, _)
GCD(a, b) == IF b = 0 THEN a ELSE GCD(b, a % b)

\* the reduced fraction n/d, d # 0
Rat(n, d) ==
    LET g == GCD(Abs(n), Abs(d))
        s == IF d < 0 THEN -1 ELSE 1
    IN  <<(s * n) \div g, (s * d) \div g>>

RInt(n) == <<n, 1>>
RZero == RInt(0)
RAdd(a, b) == Rat(a[1] * b[2] + b[1] * a[2], a[2] * b[2])
RSub(a, b) == Rat(a[1] * b[2] - b[1] * a[2], a[2] * b[2])
RMul(a, b) == Rat(a[1] * b[1], a[2] * b[2])
RNeg(a) == <<-a[1], a[2]>>
RHalf(a) == Rat(a[1], 2 * a[2])
RLeq(a, b) == a[1] * b[2] <= b[1] * a[2]
RMax(a, b) == IF RLeq(a, b) THEN b ELSE a
RMinOf(S) == CHOOSE a \in S : \A b \in S : RLeq(a, b)
RMaxOf(S) == CHOOSE a \in S : \A b \in S : RLeq(b, a)

\* vectors are triples of rationals
Vec(x, y, z) == <<RInt(x), RInt(y), RInt(z)>>
VZero == Vec(0, 0, 0)
VOne == Vec(1, 1, 1)
VAdd(u, v) == <<RAdd(u[1], v[1]), RAdd(u[2], v[2]), RAdd(u[3], v[3])>>
VMul(u, v) == <<RMul(u[1], v[1]), RMul(u[2], v[2]), RMul(u[3], v[3])>>

\* rotation_euler is either zero or a quarter turn about X: (x,y,z) -> (x,-z,y)
Rotate(rot, v) == IF rot = "qx" THEN <<v[1], RNeg(v[3]), v[2]>> ELSE v

\* the list in ascending order
RESOLUTIONS_Ascending == <<64, 128, 256, 512, 1024>>

\* ------------------------------------------------------------ the source's constants
RESOLUTIONS == <<1024, 512, 256, 128, 64>>

\* ------------------------------------------------------------------ state
VARIABLES
    collections,      \* bpy.data.collections: id -> [name, linked]
    objects,          \* bpy.data.objects: id -> record (see Obj)
    camera,           \* bpy.context.scene.camera: object id, 0 for None
    active,           \* bpy.context.view_layer.objects.active: id, 0 for None
    mode,             \* the interaction mode
    render,           \* bpy.context.scene.render
    icons_exists,     \* whether <blend dir>/Icons exists
    files,            \* the files written by renders, as paths
    pc,               \* the statement of main() to run next
    runs,             \* how many runs of main() have started
    setup_collection, \* main()'s local: id of the Setup collection
    camera_object,    \* main()'s local: id of the camera it created
    lights,           \* main()'s local: ids returned by add_3_point_lighting
    i,                \* position in the loops over target_collection.objects
    r,                \* position in the loop over RESOLUTIONS
    log               \* the host calls of the current run, in order

vars == <<collections, objects, camera, active, mode, render, icons_exists,
          files, pc, runs, setup_collection, camera_object, lights, i, r, log>>

scene == <<collections, objects, camera, active, render, icons_exists, files>>

\* ------------------------------------------------------- the host's scene
\* the scene's own collection (bpy.context.scene.collection); it is not one of
\* bpy.data.collections.  An object or collection reference of 0 is None.
MASTER == 0

ObjIds == DOMAIN objects
CollIds == DOMAIN collections

\* a collection the scene (and so its view layer) reaches
Linked(c) == c = MASTER \/ (c \in CollIds /\ collections[c].linked)

\* bpy.context.scene.objects / bpy.context.view_layer.objects
SceneObjectsOf(objs) == {o \in DOMAIN objs : \E c \in objs[o].users : Linked(c)}
SceneObjects == SceneObjectsOf(objects)

\* "name" in bpy.data.collections / bpy.data.collections["name"]
CollNamed(base) == {c \in CollIds : collections[c].name = <<base, 0>>}
InCollections(base) == CollNamed(base) # {}
CollectionByName(base) == CHOOSE c \in CollNamed(base) : TRUE

\* the host keeps datablock names unique: "X", "X.001", "X.002", ...
UniqueName(taken, base) ==
    <<base, Cardinality({n \in taken : n[1] = base})>>

RECURSIVE Ascending(_)
Ascending(S) ==
    IF S = {} THEN <<>>
    ELSE LET m == CHOOSE x \in S : \A y \in S : x <= y
         IN  <<m>> \o Ascending(S \ {m})

\* target_collection.objects, in the host's (stable) order
CollectionObjects(c) == Ascending({o \in ObjIds : c \in objects[o].users})
TargetObjects == CollectionObjects(CollectionByName("Target"))

Lights == {o \in ObjIds : objects[o].type = "LIGHT"}
Cameras == {o \in ObjIds : objects[o].type = "CAMERA"}

\* bpy.data.objects.new(name, object_data): a fresh object in no collection
NewObject(base, type, loc, rot) ==
    [name |-> UniqueName({objects[o].name : o \in ObjIds}, base),
     type |-> type, users |-> {}, hide_render |-> FALSE, select |-> FALSE,
     lo |-> VZero, hi |-> VZero, scale |-> VOne, rot |-> rot, loc |-> loc]

\* ------------------------------------------------ transforms and geometry
RDiv(a, b) == Rat(a[1] * b[2], a[2] * b[1])

\* obj.bound_box: the 8 corners of the local bounding box
BoundBox(o) ==
    {<<x, y, z>> : x \in {o.lo[1], o.hi[1]}, y \in {o.lo[2], o.hi[2]},
                   z \in {o.lo[3], o.hi[3]}}

\* obj.matrix_world @ corner (location * rotation * scale)
MatrixWorld(o, corner) == VAdd(o.loc, Rotate(o.rot, VMul(o.scale, corner)))

WorldBoundingBox(o) == {MatrixWorld(o, c) : c \in BoundBox(o)}
MinAxis(o, a) == RMinOf({c[a] : c \in WorldBoundingBox(o)})
MaxAxis(o, a) == RMaxOf({c[a] : c \in WorldBoundingBox(o)})
Width(o) == RSub(MaxAxis(o, 1), MinAxis(o, 1))
Depth(o) == RSub(MaxAxis(o, 2), MinAxis(o, 2))
Height(o) == RSub(MaxAxis(o, 3), MinAxis(o, 3))

front_plane == "XY"

\* the branches the source never takes, taken
LargestDimensionZX(o) == RMax(Width(o), Height(o))
LargestDimensionYZ(o) == RMax(Height(o), Depth(o))

LargestDimension(o) ==
    CASE front_plane = "XY" -> RMax(Width(o), Depth(o))
      [] front_plane = "YZ" -> RMax(Height(o), Depth(o))
      [] front_plane = "ZX" -> RMax(Width(o), Height(o))

\* target_size / largest_dimension raises ZeroDivisionError on a zero divisor
DivisionFaults(o) == LargestDimension(o) = RZero
ScaleFactor(o, target_size) == RDiv(RInt(target_size), LargestDimension(o))

\* the default of scale_object_to_fit_camera's target_size, which
\* standardize_object does not override
DefaultTargetSize == 2

\* the box spanned by a set of points, written into o's mesh
WithBox(o, pts) ==
    [o EXCEPT !.lo = <<RMinOf({c[1] : c \in pts}), RMinOf({c[2] : c \in pts}),
                       RMinOf({c[3] : c \in pts})>>,
              !.hi = <<RMaxOf({c[1] : c \in pts}), RMaxOf({c[2] : c \in pts}),
                       RMaxOf({c[3] : c \in pts})>>]

\* bpy.ops.object.transform_apply(scale=True): the scale goes into the mesh
ApplyScale(o) ==
    [WithBox(o, {VMul(o.scale, c) : c \in BoundBox(o)}) EXCEPT !.scale = VOne]

\* bpy.ops.object.transform_apply(rotation=True)
ApplyRotation(o) ==
    [WithBox(o, {Rotate(o.rot, c) : c \in BoundBox(o)}) EXCEPT !.rot = "none"]

\* bpy.ops.object.origin_set(type='ORIGIN_GEOMETRY', center='BOUNDS')
OriginSet(o) ==
    LET centre == <<RHalf(RAdd(o.lo[1], o.hi[1])), RHalf(RAdd(o.lo[2], o.hi[2])),
                    RHalf(RAdd(o.lo[3], o.hi[3]))>>
        back == <<RNeg(centre[1]), RNeg(centre[2]), RNeg(centre[3])>>
    IN  [o EXCEPT !.lo = VAdd(o.lo, back), !.hi = VAdd(o.hi, back),
                  !.loc = MatrixWorld(o, centre)]

\* bpy.ops.object.location_clear(clear_delta=False)
LocationClear(o) == [o EXCEPT !.loc = VZero]

\* the four operators of standardize_object act on every selected object
Operators(o) == LocationClear(OriginSet(ApplyRotation(ApplyScale(o))))

\* standardize_object up to the call of scale_object_to_fit_camera
Prepared(objs, id) ==
    LET sel == [objs EXCEPT ![id].select = TRUE]
    IN  [o \in DOMAIN sel |-> IF sel[o].select THEN Operators(sel[o]) ELSE sel[o]]

\* obj.scale = (scale_factor, scale_factor, scale_factor)
Scaled(o, target_size) ==
    LET s == ScaleFactor(o, target_size)
    IN  [o EXCEPT !.scale = <<s, s, s>>]

\* standardize_object when the division does not fault
Standardized(objs, id) ==
    LET prep == Prepared(objs, id)
    IN  [prep EXCEPT ![id] = [Scaled(prep[id], DefaultTargetSize)
                                 EXCEPT !.select = FALSE]]

\* ----------------------------------------------------------- initial scenes
Kinds == {"box", "tilted", "line", "light"}

\* the Target objects the model starts from; name k is "Cube", "Cube.001", ...
\*   box:    2 x 4 x 6, off the origin, hidden from renders
\*   tilted: 1 x 1 x 3, mirrored and doubled along X, a quarter turn about X
\*   line:   two vertices on the Z axis (no extent in X or Y)
\*   light:  an object of Target that is no mesh
Specimen(kind, k, coll) ==
    LET base == [name |-> <<"Cube", k>>, type |-> "MESH", users |-> {coll},
                 hide_render |-> FALSE, select |-> FALSE,
                 lo |-> VZero, hi |-> VZero, scale |-> VOne, rot |-> "none",
                 loc |-> VZero]
    IN  CASE kind = "box" ->
               [base EXCEPT !.hi = Vec(2, 4, 6), !.loc = Vec(1, 0, 0),
                            !.hide_render = TRUE]
          [] kind = "tilted" ->
               [base EXCEPT !.hi = Vec(1, 1, 3), !.scale = Vec(-2, 1, 1),
                            !.rot = "qx"]
          [] kind = "line" ->
               [base EXCEPT !.hi = Vec(0, 0, 2)]
          [] OTHER ->
               [base EXCEPT !.type = "LIGHT"]

\* an object of the scene outside Target
Bystander ==
    [name |-> <<"Plane", 0>>, type |-> "MESH", users |-> {MASTER},
     hide_render |-> FALSE, select |-> FALSE,
     lo |-> Vec(-1, -1, 0), hi |-> Vec(1, 1, 0), scale |-> VOne,
     rot |-> "none", loc |-> VZero]

PreLight(coll) ==
    [name |-> <<"Sun", 0>>, type |-> "LIGHT", users |-> {coll},
     hide_render |-> TRUE, select |-> FALSE,
     lo |-> VZero, hi |-> VZero, scale |-> VOne, rot |-> "none", loc |-> VZero]

InitialRender ==
    [resolution_x |-> 1920, resolution_y |-> 1080, file_format |-> "JPEG",
     color_mode |-> "RGB", film_transparent |-> FALSE, filepath |-> <<"tmp">>]

Init ==
    \E hasTarget \in BOOLEAN, setupKind \in {"none", "linked", "unlinked"},
       preLight \in {"none", "setup"},
       kinds \in UNION {[1..n -> Kinds] : n \in 0..MaxTargetObjs} :
        LET colls == (IF hasTarget
                        THEN <<[name |-> <<"Target", 0>>, linked |-> TRUE]>>
                        ELSE <<>>)
                     \o (IF setupKind = "none" THEN <<>>
                         ELSE <<[name |-> <<"Setup", 0>>,
                                 linked |-> (setupKind = "linked")]>>)
            targetId == IF hasTarget THEN 1 ELSE MASTER
            setupId == Len(colls)
        IN  /\ preLight = "setup" => setupKind # "none"
            /\ collections = colls
            /\ objects = <<Bystander>>
                         \o [k \in 1..Len(kinds) |->
                                Specimen(kinds[k], k - 1, targetId)]
                         \o (IF preLight = "setup" THEN <<PreLight(setupId)>>
                             ELSE <<>>)
    /\ camera = 0
    /\ active = 0
    /\ mode \in {"OBJECT", "EDIT"}
    /\ render = InitialRender
    /\ icons_exists \in BOOLEAN
    /\ files = {}
    /\ pc = "idle"
    /\ runs = 0
    /\ setup_collection = 0
    /\ camera_object = 0
    /\ lights = <<>>
    /\ i = 1
    /\ r = 1
    /\ log = <<>>

\* ------------------------------------------------------- main(), by statement
Logged(e) == Append(log, e)

Mesh(id) == objects[id].type = "MESH"

\* scale_object_to_fit_camera(obj, target_size) called on its own, on a mesh
\* of a scene that main() has nothing to do in (one without Target)
ScaleObjectToFitCamera ==
    /\ pc = "idle"
    /\ runs = 0
    /\ ~InCollections("Target")
    /\ \E id \in ObjIds, target_size \in 1..MaxTargetSize :
          /\ Mesh(id)
          /\ IF DivisionFaults(objects[id])
               THEN /\ pc' = "raised"
                    /\ log' = Logged([op |-> "raised", obj |-> objects[id].name])
                    /\ UNCHANGED objects
               ELSE /\ pc' = "called"
                    /\ objects' = [objects EXCEPT
                                      ![id] = Scaled(objects[id], target_size)]
                    /\ log' = Logged([op |-> "scale",
                                      obj |-> objects[id].name,
                                      target_size |-> target_size,
                                      width |-> Width(objects[id]),
                                      depth |-> Depth(objects[id]),
                                      height |-> Height(objects[id]),
                                      scale_factor |->
                                          ScaleFactor(objects[id], target_size)])
    /\ mode' = "OBJECT"
    /\ UNCHANGED <<collections, camera, active, render, icons_exists, files, runs,
                   setup_collection, camera_object, lights, i, r>>

\* main() is called: ensure_object_mode()
EnsureObjectMode ==
    /\ pc \in {"idle", "returned", "done", "faulted"}
    /\ runs < MaxRuns
    /\ runs' = runs + 1
    /\ mode' = "OBJECT"
    /\ pc' = "check_target"
    /\ setup_collection' = 0
    /\ camera_object' = 0
    /\ lights' = <<>>
    /\ i' = 1
    /\ r' = 1
    /\ log' = <<>>
    /\ UNCHANGED scene

\* the Icons folder made before the test for Target
TargetMissingAfterIcons ==
    /\ pc = "check_target"
    /\ ~InCollections("Target")
    /\ pc' = "returned"
    /\ icons_exists' = TRUE
    /\ log' = Logged([op |-> "no_target"])
    /\ UNCHANGED <<collections, objects, camera, active, render, files, mode, runs,
                   setup_collection, camera_object, lights, i, r>>

\* if "Target" not in bpy.data.collections: print, return
TargetMissing ==
    /\ pc = "check_target"
    /\ ~InCollections("Target")
    /\ pc' = "returned"
    /\ log' = Logged([op |-> "no_target"])
    /\ UNCHANGED <<scene, mode, runs, setup_collection, camera_object, lights, i, r>>

TargetPresent ==
    /\ pc = "check_target"
    /\ InCollections("Target")
    /\ pc' = "create_setup"
    /\ UNCHANGED <<scene, mode, runs, setup_collection, camera_object, lights, i,
                   r, log>>

\* the collection made without looking for one
SetupAlwaysMissing == TRUE

\* the test of create_setup_collection
SetupMissing == ~InCollections("Setup")

CreateSetupCollection ==
    /\ pc = "create_setup"
    /\ IF SetupMissing
         THEN /\ collections' =
                    Append(collections,
                           [name |-> UniqueName({collections[c].name : c \in CollIds},
                                                "Setup"),
                            linked |-> TRUE])
              /\ setup_collection' = Len(collections) + 1
              /\ log' = Logged([op |-> "setup_created"])
         ELSE /\ setup_collection' = CollectionByName("Setup")
              /\ log' = Logged([op |-> "setup_exists"])
              /\ UNCHANGED collections
    /\ pc' = "add_camera"
    /\ UNCHANGED <<objects, camera, active, mode, render, icons_exists, files,
                   runs, camera_object, lights, i, r>>

\* collection.objects.link(obj)
Link(o, coll) == [o EXCEPT !.users = @ \cup {coll}]

\* the camera guarded the way the collection and the lights are
AddCameraIfMissing ==
    /\ pc = "add_camera"
    /\ IF Cameras = {}
         THEN /\ objects' = Append(objects,
                     Link(NewObject("RenderCamera", "CAMERA", Vec(0, -4, 0), "qx"),
                          setup_collection))
              /\ camera_object' = Len(objects) + 1
         ELSE /\ camera_object' = CHOOSE o \in Cameras : TRUE
              /\ UNCHANGED objects
    /\ pc' = "add_lights"
    /\ log' = Logged([op |-> "camera"])
    /\ UNCHANGED <<collections, camera, active, mode, render, icons_exists, files,
                   runs, setup_collection, lights, i, r>>

AddCameraToCollection ==
    /\ pc = "add_camera"
    /\ objects' = Append(objects,
                         Link(NewObject("RenderCamera", "CAMERA", Vec(0, -4, 0), "qx"),
                              setup_collection))
    /\ camera_object' = Len(objects) + 1
    /\ pc' = "add_lights"
    /\ log' = Logged([op |-> "camera"])
    /\ UNCHANGED <<collections, camera, active, mode, render, icons_exists, files,
                   runs, setup_collection, lights, i, r>>

\* lights_exist(): any LIGHT among bpy.context.view_layer.objects
LightsExist == \E o \in SceneObjects : objects[o].type = "LIGHT"

Add3PointLighting ==
    /\ pc = "add_lights"
    /\ IF LightsExist
         THEN /\ lights' = <<>>
              /\ log' = Logged([op |-> "lights_skipped"])
              /\ UNCHANGED objects
         ELSE /\ objects' = objects \o
                    <<Link(NewObject("KeyLight", "LIGHT", Vec(5, -5, 5), "none"),
                           setup_collection),
                      Link(NewObject("FillLight", "LIGHT", Vec(-5, -5, 5), "none"),
                           setup_collection),
                      Link(NewObject("BackLight", "LIGHT", Vec(0, 5, 5), "none"),
                           setup_collection)>>
              /\ lights' = <<Len(objects) + 1, Len(objects) + 2, Len(objects) + 3>>
              /\ log' = Logged([op |-> "lights_added"])
    /\ pc' = "set_camera"
    /\ UNCHANGED <<collections, camera, active, mode, render, icons_exists, files,
                   runs, setup_collection, camera_object, i, r>>

\* bpy.context.scene.camera = camera_object; view_layer.update()
SetActiveCamera ==
    /\ pc = "set_camera"
    /\ camera' = camera_object
    /\ pc' = "ensure_unique"
    /\ log' = Logged([op |-> "set_camera"])
    /\ UNCHANGED <<collections, objects, active, mode, render, icons_exists, files,
                   runs, setup_collection, camera_object, lights, i, r>>

\* ensure_unique_in_collection(collection, objs)
EnsureUnique(objs, coll, ids) ==
    [o \in DOMAIN objs |->
        IF \E k \in DOMAIN ids : ids[k] = o
          THEN [objs[o] EXCEPT !.users = @ \cap {coll}]
          ELSE objs[o]]

EnsureUniqueInCollection ==
    /\ pc = "ensure_unique"
    /\ objects' = EnsureUnique(objects, setup_collection, <<camera_object>> \o lights)
    /\ pc' = "create_icons"
    /\ log' = Logged([op |-> "setup_complete"])
    /\ UNCHANGED <<collections, camera, active, mode, render, icons_exists, files,
                   runs, setup_collection, camera_object, lights, i, r>>

\* create_icons_folder(): the directory is made unless it exists
CreateIconsFolder ==
    /\ pc = "create_icons"
    /\ icons_exists' = TRUE
    /\ pc' = "standardize"
    /\ i' = 1
    /\ log' = Logged([op |-> "icons"])
    /\ UNCHANGED <<collections, objects, camera, active, mode, render, files, runs,
                   setup_collection, camera_object, lights, r>>

\* first loop over target_collection.objects: a MESH is standardized
StandardizeObject ==
    /\ pc = "standardize"
    /\ i <= Len(TargetObjects)
    /\ Mesh(TargetObjects[i])
    /\ LET id == TargetObjects[i]
           prep == Prepared(objects, id)
       IN  /\ active' = id
           /\ IF DivisionFaults(prep[id])
                THEN /\ objects' = prep
                     /\ pc' = "faulted"
                     /\ log' = Logged([op |-> "fault", obj |-> objects[id].name])
                     /\ i' = i
                ELSE /\ objects' = Standardized(objects, id)
                     /\ pc' = "standardize"
                     /\ log' = Logged([op |-> "standardize",
                                      obj |-> objects[id].name,
                                      width |-> Width(prep[id]),
                                      depth |-> Depth(prep[id]),
                                      height |-> Height(prep[id]),
                                      scale_factor |->
                                          ScaleFactor(prep[id], DefaultTargetSize)])
                     /\ i' = i + 1
    /\ UNCHANGED <<collections, camera, mode, render, icons_exists, files, runs,
                   setup_collection, camera_object, lights, r>>

StandardizeSkip ==
    /\ pc = "standardize"
    /\ i <= Len(TargetObjects)
    /\ ~Mesh(TargetObjects[i])
    /\ i' = i + 1
    /\ UNCHANGED <<scene, mode, pc, runs, setup_collection, camera_object, lights,
                   r, log>>

StandardizeEnd ==
    /\ pc = "standardize"
    /\ i > Len(TargetObjects)
    /\ pc' = "render_loop"
    /\ i' = 1
    /\ UNCHANGED <<scene, mode, runs, setup_collection, camera_object, lights, r,
                   log>>

\* second loop over target_collection.objects
RenderNextObject ==
    /\ pc = "render_loop"
    /\ i <= Len(TargetObjects)
    /\ Mesh(TargetObjects[i])
    /\ pc' = "settings"
    /\ r' = 1
    /\ log' = Logged([op |-> "processing", obj |-> objects[TargetObjects[i]].name])
    /\ UNCHANGED <<scene, mode, runs, setup_collection, camera_object, lights, i>>

RenderSkip ==
    /\ pc = "render_loop"
    /\ i <= Len(TargetObjects)
    /\ ~Mesh(TargetObjects[i])
    /\ i' = i + 1
    /\ UNCHANGED <<scene, mode, pc, runs, setup_collection, camera_object, lights,
                   r, log>>

RenderingComplete ==
    /\ pc = "render_loop"
    /\ i > Len(TargetObjects)
    /\ pc' = "done"
    /\ log' = Logged([op |-> "complete"])
    /\ UNCHANGED <<scene, mode, runs, setup_collection, camera_object, lights, i, r>>

\* resolution_y left as it was
RenderSettingsWidthOnly(resolution) ==
    [render EXCEPT !.resolution_x = resolution,
                   !.file_format = "PNG", !.color_mode = "RGBA",
                   !.film_transparent = TRUE]

\* setup_render_settings(resolution)
RenderSettings(resolution) ==
    [render EXCEPT !.resolution_x = resolution, !.resolution_y = resolution,
                   !.file_format = "PNG", !.color_mode = "RGBA",
                   !.film_transparent = TRUE]

SetupRenderSettings ==
    /\ pc = "settings"
    /\ r <= Len(RESOLUTIONS)
    /\ render' = RenderSettings(RESOLUTIONS[r])
    /\ pc' = "render"
    /\ log' = Logged([op |-> "settings", res |-> RESOLUTIONS[r]])
    /\ UNCHANGED <<collections, objects, camera, active, mode, icons_exists, files,
                   runs, setup_collection, camera_object, lights, i, r>>

\* the lights hidden with the rest
HiddenAllButObject(id, other) == other # id

\* the hiding loop of render_object: hide_render of a scene object
Hidden(id, other) == other # id /\ objects[other].type # "LIGHT"

\* the file joined to icons_dir instead of the object's folder
OutputPathFlat(name, resolution) == <<"Icons", <<"Cube", 0>>, resolution>>

\* os.path.join(os.path.join(icons_dir, obj.name), f"{resolution}.png")
OutputPath(name, resolution) == <<"Icons", name, resolution>>

\* render_object(obj, res, icon_dir); bpy.ops.render.render(write_still=True)
\* writes the image to scene.render.filepath under the scene's settings
RenderObject ==
    /\ pc = "render"
    /\ LET id == TargetObjects[i]
           hid == [o \in ObjIds |->
                     IF o \in SceneObjects
                       THEN [objects[o] EXCEPT !.hide_render = Hidden(id, o)]
                       ELSE objects[o]]
           path == OutputPath(objects[id].name, RESOLUTIONS[r])
       IN  /\ objects' = hid
           /\ render' = [render EXCEPT !.filepath = path]
           /\ files' = files \cup {path}
           /\ log' = Logged([op |-> "render", obj |-> objects[id].name,
                            res |-> RESOLUTIONS[r], path |-> path,
                            settings |-> render,
                            visible |-> {o \in SceneObjectsOf(hid) :
                                            ~hid[o].hide_render},
                            in_scene |-> SceneObjects])
    /\ r' = r + 1
    /\ pc' = "settings"
    /\ UNCHANGED <<collections, camera, active, mode, icons_exists, runs,
                   setup_collection, camera_object, lights, i>>

\* the loop over RESOLUTIONS is exhausted
ResolutionsEnd ==
    /\ pc = "settings"
    /\ r > Len(RESOLUTIONS)
    /\ pc' = "render_loop"
    /\ i' = i + 1
    /\ log' = Logged([op |-> "processed", obj |-> objects[TargetObjects[i]].name])
    /\ UNCHANGED <<scene, mode, runs, setup_collection, camera_object, lights, r>>

Next ==
    \/ ScaleObjectToFitCamera
    \/ EnsureObjectMode
    \/ TargetMissing
    \/ TargetPresent
    \/ CreateSetupCollection
    \/ AddCameraToCollection
    \/ Add3PointLighting
    \/ SetActiveCamera
    \/ EnsureUniqueInCollection
    \/ CreateIconsFolder
    \/ StandardizeObject
    \/ StandardizeSkip
    \/ StandardizeEnd
    \/ RenderNextObject
    \/ RenderSkip
    \/ RenderingComplete
    \/ SetupRenderSettings
    \/ RenderObject
    \/ ResolutionsEnd

Spec == Init /\ [][Next]_vars

\* ------------------------------------------------------------- properties
IsOp(op) == {k \in DOMAIN log : log[k].op = op}
Named(name) == CHOOSE o \in ObjIds : objects[o].name = name
TargetExists == \E c \in CollIds : collections[c].name = <<"Target", 0>>
TargetMembers ==
    {o \in ObjIds : \E c \in objects[o].users :
        c \in CollIds /\ collections[c].name = <<"Target", 0>>}
TargetMeshes == {o \in TargetMembers : objects[o].type = "MESH"}
IconPaths ==
    {<<"Icons", objects[o].name, R>> : o \in TargetMeshes,
                                       R \in {1024, 512, 256, 128, 64}}

\* C1: a run of main() that completes with Target present has written exactly
\* the files Icons/N/R.png, N the name of a MESH object of Target and R one of
\* the five resolutions, each by exactly one render, and nothing else.
C1_RenderOutputs ==
    pc = "done" =>
        /\ \A p \in IconPaths :
              Cardinality({k \in IsOp("render") : log[k].path = p}) = 1
        /\ \A k \in IsOp("render") : log[k].path \in IconPaths
        /\ files = IconPaths
        /\ Cardinality(IsOp("render")) = 5 * Cardinality(TargetMeshes)

C1_Witness ==
    /\ pc = "done"
    /\ Cardinality(TargetMeshes) = 1
    /\ \E o \in TargetMembers : objects[o].type = "LIGHT"
    /\ Cardinality(files) = 5

SetupCollections == {c \in CollIds : collections[c].name[1] = "Setup"}

\* C2: whatever the initial scene (no Setup collection, a linked one or an
\* unlinked one) and however often main() has run, there is never more than
\* one Setup collection; once a run with Target present has passed
\* create_setup_collection there is exactly one, it is the one main() uses, and
\* a Setup collection that existed before is that one.
C2_SingleSetup ==
    /\ Cardinality(SetupCollections) <= 1
    /\ (TargetExists /\ pc \notin {"idle", "check_target", "create_setup"}) =>
          /\ SetupCollections = {setup_collection}
          /\ collections[setup_collection].name = <<"Setup", 0>>

C2_Witness ==
    /\ pc = "done"
    /\ runs = 2
    /\ SetupCollections = {setup_collection}
    /\ ~collections[setup_collection].linked

\* C3: running main() twice leaves no duplicate lights: when a run completes
\* there is at most one KeyLight, one FillLight and one BackLight, so a
\* second run has created no light.
C3_NoDuplicateLights ==
    pc = "done" =>
        \A base \in {"KeyLight", "FillLight", "BackLight"} :
            Cardinality({o \in Lights : objects[o].name[1] = base}) <= 1

\* C4: scale_object_to_fit_camera(obj, target_size) assigns the uniform scale
\* (s, s, s) with s * max(W, D) = target_size, W and D the width and depth of
\* the world-space bounding box at the call, whatever the height H; and
\* standardize_object calls it with target_size 2, after which the larger of
\* the object's width and depth is 2.
C4_UniformScale ==
    /\ \A k \in IsOp("scale") :
          LET e == log[k]
              o == objects[Named(e.obj)]
          IN  /\ o.scale = <<e.scale_factor, e.scale_factor, e.scale_factor>>
              /\ RMul(e.scale_factor, RMax(e.width, e.depth))
                    = <<e.target_size, 1>>
    /\ \A k \in IsOp("standardize") :
          LET e == log[k]
              o == objects[Named(e.obj)]
          IN  /\ o.scale = <<e.scale_factor, e.scale_factor, e.scale_factor>>
              /\ RMul(e.scale_factor, RMax(e.width, e.depth)) = <<2, 1>>
              /\ RMax(Width(o), Depth(o)) = <<2, 1>>

C4_Witness ==
    \E k \in IsOp("standardize") :
        /\ ~RLeq(log[k].height, RMax(log[k].width, log[k].depth))
        /\ log[k].width # log[k].depth
        /\ log[k].scale_factor \notin {<<1, 1>>, <<2, 1>>}

\* C5: without a Target collection main() returns after the mode switch: no
\* step of main() changes the collections, objects, active camera, active
\* object, render settings, Icons directory or files, and no later statement
\* of main() is reached.
C5_NoTargetNoEffect ==
    /\ [](~TargetExists =>
            pc \in {"idle", "check_target", "returned", "called", "raised"})
    /\ [][(~TargetExists /\ pc' \notin {"called", "raised"}) =>
            UNCHANGED scene]_vars

C5_Witness ==
    /\ pc = "returned"
    /\ runs = 2
    /\ mode = "OBJECT"
    /\ ~icons_exists
    /\ SetupCollections = {}

\* C6: every render that writes Icons/N/R.png runs with resolution R x R, PNG,
\* RGBA and a transparent film, and setup_render_settings(R) is the call
\* right before it.
C6_RenderSettings ==
    \A k \in IsOp("render") :
        LET e == log[k]
        IN  /\ e.path = <<"Icons", e.obj, e.res>>
            /\ e.settings.resolution_x = e.res
            /\ e.settings.resolution_y = e.res
            /\ e.settings.file_format = "PNG"
            /\ e.settings.color_mode = "RGBA"
            /\ e.settings.film_transparent
            /\ k > 1
            /\ log[k - 1].op = "settings"
            /\ log[k - 1].res = e.res

C6_Witness ==
    \E k \in IsOp("render") : log[k].res = 64 /\ log[k].obj = <<"Cube", 1>>

\* C7: at every render of obj the scene objects with hide_render = False are
\* exactly obj and the lights of the scene; every other scene object is hidden.
C7_Visibility ==
    /\ \A k \in IsOp("render") :
          log[k].visible =
              {o \in log[k].in_scene :
                  objects[o].name = log[k].obj \/ objects[o].type = "LIGHT"}
    /\ (pc = "settings" /\ r > 1) =>
          \A o \in SceneObjects :
              objects[o].hide_render =
                  ~(o = TargetObjects[i] \/ objects[o].type = "LIGHT")

C7_Witness ==
    /\ pc = "settings"
    /\ r > 1
    /\ i = 2
    /\ camera \in SceneObjects
    /\ objects[camera].hide_render
    /\ objects[TargetObjects[1]].type = "MESH"
    /\ objects[TargetObjects[1]].hide_render
    /\ \E o \in SceneObjects :
          objects[o].name = <<"KeyLight", 0>> /\ ~objects[o].hide_render

Renders == SelectSeq(log, LAMBDA e : e.op = "render")
MeshOrder == Ascending(TargetMeshes)
Rig == {"setup_created", "setup_exists", "camera", "lights_added",
        "lights_skipped", "set_camera"}

\* C8: in a run with Target present the rig is built and the active camera set
\* before any object is standardized; every MESH object of Target has been
\* standardized exactly once before the first render; the renders go object by
\* object in Target's order, five in a row at 1024, 512, 256, 128, 64.
C8_PhaseOrder ==
    /\ \A j \in IsOp("standardize") \cup IsOp("fault") :
          /\ \A k \in DOMAIN log : log[k].op \in Rig => k < j
          /\ \E k \in IsOp("set_camera") : k < j
          /\ camera = camera_object
    /\ \A j \in IsOp("render") :
          \A o \in TargetMeshes :
              Cardinality({k \in IsOp("standardize") :
                              log[k].obj = objects[o].name /\ k < j}) = 1
    /\ \A j \in IsOp("standardize") : \A k \in IsOp("render") : j < k
    /\ Len(Renders) <= 5 * Len(MeshOrder)
    /\ \A k \in DOMAIN Renders :
          /\ Renders[k].obj = objects[MeshOrder[((k - 1) \div 5) + 1]].name
          /\ Renders[k].res = <<1024, 512, 256, 128, 64>>[((k - 1) % 5) + 1]

C8_Witness ==
    /\ pc = "done"
    /\ Len(Renders) = 10

SetupCameras ==
    {o \in Cameras : objects[o].name[1] = "RenderCamera"
                     /\ objects[o].users = SetupCollections}

\* C9: every run with Target present adds one camera, linked to Setup alone,
\* and makes it the active camera: after n runs Setup holds n cameras the
\* script made and the active camera is the latest.
C9_CameraPerRun ==
    /\ Cardinality(Cameras) <= runs
    /\ (TargetExists /\ pc \notin {"idle", "check_target", "create_setup",
                                   "add_camera", "add_lights", "set_camera"}) =>
          /\ Cardinality(SetupCameras) = runs
          /\ Cameras = SetupCameras
          /\ camera = camera_object
          /\ camera \in Cameras
          /\ \A o \in Cameras : o <= camera

C9_Witness ==
    /\ pc = "done"
    /\ runs = 2
    /\ Cardinality(SetupCameras) = 2

\* no width and no depth: every corner of the world-space box has the same x
\* and the same y
Degenerate(o) ==
    Cardinality({<<c[1], c[2]>> : c \in WorldBoundingBox(objects[o])}) = 1

\* C10: when a MESH object of Target has a bounding box without width and
\* depth, the run ends in standardization by the uncaught division fault: no
\* render happens and no file is written, for any object, while the Setup
\* collection, the camera, the lights and the Icons directory stay.
C10_ZeroDivision ==
    /\ (\E o \in TargetMeshes : Degenerate(o)) =>
          /\ IsOp("render") = {}
          /\ files = {}
          /\ pc \notin {"render_loop", "settings", "render", "done"}
          /\ (pc = "standardize" /\ i <= Len(TargetObjects)) =>
                \E k \in i..Len(TargetObjects) : Degenerate(TargetObjects[k])
    /\ pc = "faulted" =>
          /\ Degenerate(TargetObjects[i])
          /\ SetupCollections = {setup_collection}
          /\ camera_object \in Cameras
          /\ camera = camera_object
          /\ \A k \in DOMAIN lights : lights[k] \in Lights
          /\ Lights # {}
          /\ icons_exists

C10_Witness ==
    /\ pc = "faulted"
    /\ i = 2
    /\ IsOp("standardize") # {}
    /\ Len(lights) = 3

====
